---- MODULE Spec2Model ----
(***************************************************************************)
(* State-machine model of src/main.py (EPFL staffing bot): the validator   *)
(* library, the document builder, the field-collection handlers and the    *)
(* ConversationHandler wiring that dispatches updates to them.             *)
(*                                                                         *)
(* A text is a sequence of code points, each a one-element string.  The    *)
(* emoji code points are written by name: "EYES" (U+1F440), "CHECK"        *)
(* (U+2705), "CROSS" (U+274C), "HEART" (U+2764); "VS16" is VARIATION        *)
(* SELECTOR-16 (U+FE0F), which follows "HEART" in the emoji as keyboards   *)
(* send it; "AR2" is ARABIC-INDIC DIGIT TWO (U+0662), a decimal digit       *)
(* outside ASCII.                                                          *)
(***************************************************************************)
EXTENDS Naturals, Sequences, FiniteSets, TLC

(***************************************************************************)
(* Constants (main.py 29-66)                                               *)
(***************************************************************************)
ACCEPTED_CHARACTERS ==
    {".", ",", ":", ";", "!", "?", "(", ")", "[", "]", "{", "}", "/", "\\",
     "-", "_", "+", "=", "*", "@", "#", "$", "%", "^", "&", "|", "<", ">",
     "~", "`", "\"", "'", "MIDDOT", "RSQUO"}

POST == "post"
TITLE == "title"
EMOJI == "emoji"
DATE == "date"
DESCRIPTION == "description"
LINK == "link"
CONTACT == "contact"
CONFIRMATION == "confirmation"

fields_and_questions ==
    [f \in {POST, TITLE, EMOJI, DATE, DESCRIPTION, LINK, CONTACT, CONFIRMATION} |->
        CASE f = POST -> "Please read carefully the rules of posting with /rules before sending your post as any post that does not comply with these rules will not be posted!"
          [] f = TITLE -> "What is the title of the post?"
          [] f = EMOJI -> "What is the emoji of the post?"
          [] f = DATE -> "What is the date of the post?"
          [] f = DESCRIPTION -> "What is the description of the post?"
          [] f = LINK -> "What is the link of the post?"
          [] f = CONTACT -> "What is the contact of the post?"
          [] f = CONFIRMATION -> "(up) Do you confirm this post? (up)"]

LIMITS ==
    [f \in {TITLE, EMOJI, DESCRIPTION, LINK, CONTACT} |->
        CASE f = TITLE -> 10
          [] f = EMOJI -> 1
          [] f = DESCRIPTION -> 100
          [] f = LINK -> 100
          [] f = CONTACT -> 50]

SPECIFIC_FORMATTING_INSTRUCTIONS ==
    [f \in {TITLE, DATE} |->
        CASE f = TITLE -> "No emoji nor special characters"
          [] f = DATE -> "DD/MM or DD/MM-DD/MM"]

flow == <<POST, TITLE, EMOJI, DATE, DESCRIPTION, LINK, CONTACT, CONFIRMATION>>

CONFIRM == <<"CHECK">>
DENY == <<"CROSS">>

suffix == "Send /post to start again!"
CONFIRM_SENT == <<"Your post request has been sent to the moderatos! ", suffix>>
CANCEL_SENT == <<"Your post request has been cancelled! ", suffix>>

(***************************************************************************)
(* Code points and the str predicates the validators use                   *)
(***************************************************************************)
AsciiDigits == {"0", "1", "2", "3", "4", "5", "6", "7", "8", "9"}

\* every code point re's \d and str.isdigit accept
DecimalDigits == AsciiDigits \cup {"AR2"}

Letters ==
    {"a", "b", "c", "d", "e", "f", "g", "h", "i", "j", "k", "l", "m",
     "n", "o", "p", "q", "r", "s", "t", "u", "v", "w", "x", "y", "z",
     "A", "B", "C", "D", "E", "F", "G", "H", "I", "J", "K", "L", "M",
     "N", "O", "P", "Q", "R", "S", "T", "U", "V", "W", "X", "Y", "Z"}

\* the code points of the alphabet that are an emoji on their own
EmojiChars == {"EYES", "CHECK", "CROSS", "HEART"}

\* the code point that joins the emoji before it: "HEART" "VS16" is one emoji
VariationSelector == "VS16"

isalnum(c) == c \in Letters \cup DecimalDigits

isspace(c) == c = " "

\* int() of one decimal digit
DigitValue(c) ==
    CASE c = "0" -> 0 [] c = "1" -> 1 [] c = "2" -> 2 [] c = "3" -> 3
      [] c = "4" -> 4 [] c = "5" -> 5 [] c = "6" -> 6 [] c = "7" -> 7
      [] c = "8" -> 8 [] c = "9" -> 9 [] c = "AR2" -> 2

\* emoji.emoji_count: the number of emoji in the text; a variation selector
\* is part of the emoji before it and is no emoji on its own
RECURSIVE emoji_count(_)
emoji_count(s) ==
    IF s = <<>> THEN 0
    ELSE (IF Head(s) \in EmojiChars THEN 1 ELSE 0) + emoji_count(Tail(s))

(***************************************************************************)
(* datetime.datetime.strptime(text, '%d/%m'), for a text of five code      *)
(* points whose third is '/' (the only shape the program passes it).       *)
(* %d is the regex 3[0-1]|[1-2]\d|0[1-9]|[1-9]| [1-9] and %m is            *)
(* 1[0-2]|0[1-9]|[1-9]; the whole text must be consumed, and the date is   *)
(* built in the year 1900, which has no 29 February.                       *)
(***************************************************************************)
DayMatches(a, b) ==
    \/ a = "3" /\ b \in {"0", "1"}
    \/ a \in {"1", "2"} /\ b \in DecimalDigits
    \/ a = "0" /\ b \in AsciiDigits \ {"0"}
    \/ a = " " /\ b \in AsciiDigits \ {"0"}

MonthMatches(a, b) ==
    \/ a = "1" /\ b \in {"0", "1", "2"}
    \/ a = "0" /\ b \in AsciiDigits \ {"0"}

DaysInMonth(m) ==
    IF m = 2 THEN 28 ELSE IF m \in {4, 6, 9, 11} THEN 30 ELSE 31

\* the day and month strptime returns; defined where StrptimeOk holds
StrptimeDay(text) ==
    (IF text[1] = " " THEN 0 ELSE 10 * DigitValue(text[1])) + DigitValue(text[2])

StrptimeMonth(text) == 10 * DigitValue(text[4]) + DigitValue(text[5])

\* FALSE where strptime raises ValueError
StrptimeOk(text) ==
    /\ DayMatches(text[1], text[2])
    /\ MonthMatches(text[4], text[5])
    /\ StrptimeDay(text) <= DaysInMonth(StrptimeMonth(text))

\* datetime's <, both in the year 1900
DateBefore(a, b) ==
    \/ StrptimeMonth(a) < StrptimeMonth(b)
    \/ StrptimeMonth(a) = StrptimeMonth(b) /\ StrptimeDay(a) < StrptimeDay(b)

(***************************************************************************)
(* Validator library (main.py 87-123)                                      *)
(***************************************************************************)
is_only_non_special_characters(s) ==
    \A i \in 1..Len(s) :
        isalnum(s[i]) \/ isspace(s[i]) \/ s[i] \in ACCEPTED_CHARACTERS

\* is_shorter_than with the comparison off by one
is_shorter_than_le(length, s) == Len(s) <= length

is_shorter_than(length, s) == Len(s) < length

is_emoji(s) == emoji_count(s) = 1 /\ Len(s) = 1

_check_one_date(text) ==
    IF Len(text) = 5 /\ text[3] = "/" THEN StrptimeOk(text) ELSE FALSE

is_date(s) ==
    IF Len(s) = 5 THEN _check_one_date(s)
    ELSE /\ Len(s) = 11
         /\ s[6] = "-"
         /\ _check_one_date(SubSeq(s, 1, 5))
         /\ _check_one_date(SubSeq(s, 7, 11))
         /\ DateBefore(SubSeq(s, 1, 5), SubSeq(s, 7, 11))

\* and_: all the predicates' verdicts on s, given as a sequence of booleans
and_(verdicts) == \A i \in 1..Len(verdicts) : verdicts[i]

(***************************************************************************)
(* Document builder (main.py 71-84).  A stored answer that is missing is   *)
(* the value Absent: reading it is Python's KeyError.                      *)
(***************************************************************************)
Absent == <<"<absent>">>

Keys == {POST, TITLE, EMOJI, DATE, DESCRIPTION, LINK, CONTACT}

EmptyData == [k \in Keys |-> Absent]

\* str.split('-')
RECURSIVE SplitDash(_)
SplitDash(s) ==
    IF \A i \in 1..Len(s) : s[i] # "-" THEN <<s>>
    ELSE LET i == CHOOSE j \in 1..Len(s) :
                     s[j] = "-" /\ \A k \in 1..(j - 1) : s[k] # "-"
         IN <<SubSeq(s, 1, i - 1)>> \o SplitDash(SubSeq(s, i + 1, Len(s)))

\* babel's month names for LOCALE (English shown)
MonthName(m) ==
    <<"January", "February", "March", "April", "May", "June", "July",
      "August", "September", "October", "November", "December">>[m]

DigitChar(n) == <<"0", "1", "2", "3", "4", "5", "6", "7", "8", "9">>[n + 1]

\* format_date(strptime(d, '%d/%m'), format='dd MMMM', locale=LOCALE)
format_date(d) ==
    <<DigitChar(StrptimeDay(d) \div 10), DigitChar(StrptimeDay(d) % 10), " ",
      MonthName(StrptimeMonth(d))>>

\* ' - '.join(parts)
RECURSIVE JoinDates(_)
JoinDates(parts) ==
    IF Len(parts) = 1 THEN format_date(parts[1])
    ELSE format_date(parts[1]) \o <<" - ">> \o JoinDates(Tail(parts))

\* TRUE where build_post raises: a missing key, or a date part strptime refuses
build_post_raises(data) ==
    \/ \E k \in Keys \ {POST} : data[k] = Absent
    \/ \E i \in 1..Len(SplitDash(data[DATE])) :
          LET d == SplitDash(data[DATE])[i]
          IN ~(Len(d) = 5 /\ d[3] = "/" /\ StrptimeOk(d))

build_post(data) ==
    <<"<b>">> \o data[TITLE] \o <<"</b> ">> \o data[EMOJI] \o <<"\n">>
    \o <<"<i>">> \o JoinDates(SplitDash(data[DATE])) \o <<"</i>\n">>
    \o <<"\n">>
    \o data[DESCRIPTION] \o <<"\n">>
    \o <<"\n">>
    \o <<"<a href='">> \o data[LINK] \o <<"'>Lien d'inscription</a>\n">>
    \o <<"\n">>
    \o <<"Contact : ">> \o data[CONTACT] \o <<"\n">>

\* a build_post that takes the description out of the answers as it reads it
build_post_data_pop(data) == [data EXCEPT ![DESCRIPTION] = Absent]

\* context.user_data after build_post: it reads the six answers and stores
\* nothing
build_post_data(data) == data

(***************************************************************************)
(* Questions (main.py 126-133)                                             *)
(***************************************************************************)
\* _get_question without the limit and format suffixes
_get_question_bare(field) == <<fields_and_questions[field]>>

_get_question(field) ==
    <<fields_and_questions[field]>>
    \o (IF field \in DOMAIN LIMITS
        THEN <<" (max ", ToString(LIMITS[field]), " characters)">> ELSE <<>>)
    \o (IF field \in DOMAIN SPECIFIC_FORMATTING_INSTRUCTIONS
        THEN <<" (", SPECIFIC_FORMATTING_INSTRUCTIONS[field], ")">> ELSE <<>>)

(***************************************************************************)
(* Updates: the users, and the texts and commands they send                *)
(***************************************************************************)
Users == {"u1", "u2"}

\* the users who send updates under Spec
SoloUsers == {"u1"}

RECURSIVE Repeat(_, _)
Repeat(c, n) == IF n = 0 THEN <<>> ELSE <<c>> \o Repeat(c, n - 1)

T_NAME == <<"A", "b">>
T_RANGE == <<"1", "2", "/", "1", "1", "-", "1", "6", "/", "1", "2">>
T_LONG == Repeat("x", LIMITS[DESCRIPTION])

\* the non-command texts a user sends
Texts == {T_NAME, T_RANGE, T_LONG, CONFIRM, DENY}

CMD_POST == <<"/", "p", "o", "s", "t">>
CMD_CANCEL == <<"/", "c", "a", "n", "c", "e", "l">>
CMD_START == <<"/", "s", "t", "a", "r", "t">>
CMD_HELP == <<"/", "h", "e", "l", "p">>
CMD_RULES == <<"/", "r", "u", "l", "e", "s">>

Commands == {CMD_POST, CMD_CANCEL, CMD_START, CMD_HELP, CMD_RULES}

\* filters.COMMAND: the message starts with a bot command
IsCommand(t) == Len(t) > 0 /\ t[1] = "/"

(***************************************************************************)
(* State.  conversations and user_data are the ConversationHandler's and   *)
(* the application's per-user stores; replies and posted are what the      *)
(* last update sent to the user and to the moderation chat; last is the    *)
(* last update and how it was handled.  The other variables record the     *)
(* history of each user's current conversation; among them rejects is the  *)
(* number of texts rejected in a row and preview the document last shown   *)
(* to the user for confirmation.                                           *)
(***************************************************************************)
VARIABLES conversations, user_data, replies, posted, last,
          status, nPublished, visited, accepted, asked, clean, decided,
          rejects, preview,
          vtext, vres

progVars == <<conversations, user_data, replies, posted, last>>
histVars == <<status, nPublished, visited, accepted, asked, clean, decided,
              rejects, preview>>
valVars == <<vtext, vres>>
vars == <<progVars, histVars, valVars>>

\* ConversationHandler.END: the user has no conversation
END == "END"

States == {TITLE, EMOJI, DATE, DESCRIPTION, LINK, CONTACT, CONFIRMATION}

\* a message of reply_text: its text and its reply_markup
Msg(text, markup) == [text |-> text, markup |-> markup]

NoUpdate == [user |-> "none", text |-> <<>>, handler |-> "none", state |-> END,
             raised |-> FALSE, retries |-> 0]

\* the update being handled: state is the user's conversation state before
\* it, retries the number of texts rejected in a row just before it
Update(u, t, h, exc) ==
    [user |-> u, text |-> t, handler |-> h, state |-> conversations[u],
     raised |-> exc, retries |-> rejects[u]]

\* rejections in a row are counted up to this many
MaxRetries == 2

\* a store that is one dictionary for the whole process
StoreFor_global(store, u, data) == [v \in DOMAIN store |-> data]

\* context.user_data is the dictionary of the update's user: a handler's
\* stores reach that user's answers only
StoreFor(store, u, data) == [store EXCEPT ![u] = data]

Init ==
    /\ conversations = [u \in Users |-> END]
    /\ user_data = [u \in Users |-> EmptyData]
    /\ replies = <<>>
    /\ posted = <<>>
    /\ last = NoUpdate
    /\ status = [u \in Users |-> "none"]
    /\ nPublished = [u \in Users |-> 0]
    /\ visited = [u \in Users |-> <<>>]
    /\ accepted = [u \in Users |-> <<>>]
    /\ asked = [u \in Users |-> <<>>]
    /\ clean = [u \in Users |-> FALSE]
    /\ decided = [u \in Users |-> FALSE]
    /\ rejects = [u \in Users |-> 0]
    /\ preview = [u \in Users |-> <<>>]
    /\ vtext = <<>>
    /\ vres = <<>>

(***************************************************************************)
(* go_next (main.py 136-158), as the parts of its effect                   *)
(***************************************************************************)
IndexOf(field) == CHOOSE i \in 1..Len(flow) : flow[i] = field

\* a successor that passes over one field
NextField_skip(field) ==
    flow[IF IndexOf(field) + 2 <= Len(flow) THEN IndexOf(field) + 2 ELSE Len(flow)]

\* flow[flow.index(field) + 1]
NextField(field) == flow[IndexOf(field) + 1]

\* a go_next that gives the conversation up on a rejected text
GoNextReturn_giveup(field, ok) == IF ok THEN NextField(field) ELSE END

\* the state go_next returns
GoNextReturn(field, ok) == IF ok THEN NextField(field) ELSE field

\* a go_next that stores a text only under the fields that have a limit
GoNextData_limited(data, field, text, ok) ==
    IF ok /\ field \in DOMAIN LIMITS THEN [data EXCEPT ![field] = text] ELSE data

\* a go_next that stores the text before the rule has judged it
GoNextData_early(data, field, text, ok) == [data EXCEPT ![field] = text]

\* context.user_data after go_next
GoNextData(data, field, text, ok) ==
    IF ok THEN [data EXCEPT ![field] = text] ELSE data

\* TRUE where go_next raises: build_post raises for the confirmation preview
GoNextRaises(data, field, text, ok) ==
    /\ ok
    /\ NextField(field) = CONFIRMATION
    /\ build_post_raises(GoNextData(data, field, text, ok))

\* a go_next that asks again without the question's suffixes
GoNextReplies_bare(data, field, text, ok) ==
    IF ~ok THEN <<Msg(_get_question_bare(field), "none")>>
    ELSE (IF NextField(field) = CONFIRMATION
          THEN <<Msg(build_post(GoNextData(data, field, text, ok)), "keyboard")>>
          ELSE <<>>)
         \o <<Msg(_get_question(NextField(field)), "none")>>

\* a go_next that sends the preview in place of the question of confirmation
GoNextReplies_instead(data, field, text, ok) ==
    IF ~ok THEN <<Msg(_get_question(field), "none")>>
    ELSE IF NextField(field) = CONFIRMATION
         THEN <<Msg(build_post(GoNextData(data, field, text, ok)), "keyboard")>>
    ELSE <<Msg(_get_question(NextField(field)), "none")>>

\* the messages go_next sends
GoNextReplies(data, field, text, ok) ==
    IF ~ok THEN <<Msg(_get_question(field), "none")>>
    ELSE (IF NextField(field) = CONFIRMATION
          THEN <<Msg(build_post(GoNextData(data, field, text, ok)), "keyboard")>>
          ELSE <<>>)
         \o <<Msg(_get_question(NextField(field)), "none")>>

(***************************************************************************)
(* The rule each field's handler passes to go_next (main.py 183-211)       *)
(***************************************************************************)
Rule(field, text) ==
    CASE field = TITLE ->
            and_(<<is_only_non_special_characters(text),
                   is_shorter_than(LIMITS[TITLE], text)>>)
      [] field = EMOJI -> is_emoji(text)
      [] field = DATE -> is_date(text)
      [] field = DESCRIPTION -> is_shorter_than(LIMITS[DESCRIPTION], text)
      [] field = LINK -> is_shorter_than(LIMITS[LINK], text)
      [] field = CONTACT -> is_shorter_than(LIMITS[CONTACT], text)

(***************************************************************************)
(* Handlers.  Each action is one update handled to its end: the            *)
(* application handles one update at a time.  An exception a handler       *)
(* raises is logged by the application and the conversation keeps the      *)
(* state it had.  reply_text is taken to deliver; the one send whose       *)
(* failure is modelled is send_message to the moderation chat.             *)
(***************************************************************************)
LastText(msgs) == msgs[Len(msgs)].text

\* new_post (main.py 177-180), the entry point: /post from a user who has
\* no conversation
new_post(u) ==
    LET data == GoNextData(user_data[u], POST, CMD_POST, TRUE)
        msgs == <<Msg(<<fields_and_questions[POST]>>, "none")>>
                \o GoNextReplies(user_data[u], POST, CMD_POST, TRUE)
        st == GoNextReturn(POST, TRUE)
    IN /\ conversations[u] = END
       /\ conversations' = [conversations EXCEPT ![u] = st]
       /\ user_data' = StoreFor(user_data, u, data)
       /\ replies' = msgs
       /\ posted' = <<>>
       /\ last' = Update(u, CMD_POST, "new_post", FALSE)
       /\ status' = [status EXCEPT ![u] = "active"]
       /\ nPublished' = [nPublished EXCEPT ![u] = 0]
       /\ visited' = [visited EXCEPT ![u] = <<st>>]
       /\ accepted' = [accepted EXCEPT ![u] = <<>>]
       /\ asked' = [asked EXCEPT ![u] = LastText(msgs)]
       /\ clean' = [clean EXCEPT ![u] = TRUE]
       /\ decided' = [decided EXCEPT ![u] = FALSE]
       /\ rejects' = [rejects EXCEPT ![u] = 0]
       /\ preview' = [preview EXCEPT ![u] = <<>>]
       /\ UNCHANGED valVars

\* a field's handler: go_next with the field and its rule
FieldStep(u, t, field) ==
    LET ok == Rule(field, t)
        exc == GoNextRaises(user_data[u], field, t, ok)
        st == IF exc THEN conversations[u] ELSE GoNextReturn(field, ok)
        shown == ok /\ NextField(field) = CONFIRMATION
        stored == GoNextData(user_data[u], field, t, ok)
        data == IF shown /\ ~exc THEN build_post_data(stored) ELSE stored
        msgs == IF exc THEN <<>> ELSE GoNextReplies(user_data[u], field, t, ok)
    IN /\ conversations[u] = field
       /\ ~IsCommand(t)
       /\ conversations' = [conversations EXCEPT ![u] = st]
       /\ user_data' = StoreFor(user_data, u, data)
       /\ replies' = msgs
       /\ posted' = <<>>
       /\ last' = Update(u, t, field, exc)
       /\ visited' = [visited EXCEPT ![u] =
                        IF st # conversations[u] THEN Append(@, st) ELSE @]
       /\ accepted' = [accepted EXCEPT ![u] = IF ok THEN Append(@, t) ELSE @]
       /\ asked' = [asked EXCEPT ![u] = IF exc THEN @ ELSE LastText(msgs)]
       /\ clean' = [clean EXCEPT ![u] = @ /\ ok /\ ~exc]
       /\ rejects' = [rejects EXCEPT ![u] =
                        IF ok THEN 0
                        ELSE IF @ < MaxRetries THEN @ + 1 ELSE MaxRetries]
       /\ preview' = [preview EXCEPT ![u] =
                        IF shown /\ ~exc THEN msgs[1].text ELSE @]
       /\ UNCHANGED <<status, nPublished, decided, valVars>>

title(u, t) == FieldStep(u, t, TITLE)

myemoji(u, t) == FieldStep(u, t, EMOJI)

date(u, t) == FieldStep(u, t, DATE)

description(u, t) == FieldStep(u, t, DESCRIPTION)

link(u, t) == FieldStep(u, t, LINK)

contact(u, t) == FieldStep(u, t, CONTACT)

(***************************************************************************)
(* confirmation (main.py 214-230).  delivered is the outcome of            *)
(* bot.send_message to the moderation chat: FALSE where it raises.         *)
(***************************************************************************)
\* a confirmation that publishes whatever the reply is
ConfirmationAccepts_any(t) == TRUE

\* a confirmation that cancels on the reject token only
ConfirmationAccepts_notdeny(t) == t # DENY

ConfirmationAccepts(t) == t = CONFIRM

\* TRUE where confirmation raises: after its reply, in build_post or in
\* send_message
ConfirmationRaises(data, t, delivered) ==
    ConfirmationAccepts(t) /\ (build_post_raises(data) \/ ~delivered)

ConfirmationReplies(t) ==
    IF ConfirmationAccepts(t) THEN <<Msg(CONFIRM_SENT, "remove")>>
    ELSE <<Msg(CANCEL_SENT, "remove")>>

\* a confirmation that sends the document twice
ConfirmationPosts_twice(data, t, delivered) ==
    IF ConfirmationAccepts(t) /\ ~ConfirmationRaises(data, t, delivered)
    THEN <<build_post(data), build_post(data)>> ELSE <<>>

\* a confirmation that sends the document with the title left empty
ConfirmationPosts_untitled(data, t, delivered) ==
    IF ConfirmationAccepts(t) /\ ~ConfirmationRaises(data, t, delivered)
    THEN <<build_post([data EXCEPT ![TITLE] = <<>>])>> ELSE <<>>

\* the documents confirmation sends to the moderation chat
ConfirmationPosts(data, t, delivered) ==
    IF ConfirmationAccepts(t) /\ ~ConfirmationRaises(data, t, delivered)
    THEN <<build_post(data)>> ELSE <<>>

confirmation(u, t, delivered) ==
    LET data == user_data[u]
        exc == ConfirmationRaises(data, t, delivered)
        docs == ConfirmationPosts(data, t, delivered)
        built == ConfirmationAccepts(t) /\ ~build_post_raises(data)
    IN /\ conversations[u] = CONFIRMATION
       /\ ~IsCommand(t)
       /\ conversations' = [conversations EXCEPT ![u] = IF exc THEN @ ELSE END]
       /\ user_data' = StoreFor(user_data, u,
                                IF built THEN build_post_data(data) ELSE data)
       /\ replies' = ConfirmationReplies(t)
       /\ posted' = docs
       /\ last' = Update(u, t, "confirmation", exc)
       /\ status' = [status EXCEPT ![u] =
                       IF exc THEN @
                       ELSE IF ConfirmationAccepts(t) THEN "confirmed"
                       ELSE "cancelled"]
       /\ nPublished' = [nPublished EXCEPT ![u] = @ + Len(docs)]
       /\ clean' = [clean EXCEPT ![u] = @ /\ t = CONFIRM /\ ~exc]
       /\ decided' = [decided EXCEPT ![u] = TRUE]
       /\ rejects' = [rejects EXCEPT ![u] = 0]
       /\ UNCHANGED <<visited, accepted, asked, preview, valVars>>

\* a cancel that leaves the conversation where it is
CancelReturn_stay(state) == state

\* the state cancel returns
CancelReturn(state) == END

\* cancel (main.py 233-239), the fallback: /cancel from a user in a
\* conversation
cancel(u) ==
    /\ conversations[u] \in States
    /\ conversations' = [conversations EXCEPT ![u] = CancelReturn(@)]
    /\ replies' = <<Msg(CANCEL_SENT, "remove")>>
    /\ posted' = <<>>
    /\ last' = Update(u, CMD_CANCEL, "cancel", FALSE)
    /\ status' = [status EXCEPT ![u] = "cancelled"]
    /\ clean' = [clean EXCEPT ![u] = FALSE]
    /\ decided' = [decided EXCEPT ![u] = TRUE]
    /\ rejects' = [rejects EXCEPT ![u] = 0]
    /\ UNCHANGED <<user_data, nPublished, visited, accepted, asked, preview,
                   valVars>>

\* start and help_command (main.py 163-174): a reply and nothing else
Info(u, t, h, text) ==
    /\ replies' = <<Msg(<<text>>, "none")>>
    /\ posted' = <<>>
    /\ last' = Update(u, t, h, FALSE)
    /\ clean' = [clean EXCEPT ![u] = FALSE]
    /\ rejects' = [rejects EXCEPT ![u] = 0]
    /\ UNCHANGED <<conversations, user_data, status, nPublished, visited,
                   accepted, asked, decided, preview, valVars>>

start(u) ==
    Info(u, CMD_START, "start",
         "Hello!\nYou can use /post to request a new post on the EPFL Staffing channel (https://t.me/+fkbWQxKHD58xNGI8)")

help_command(u) == Info(u, CMD_HELP, "help_command", "Help! [Work in progress...]")

\* the updates no handler of main (main.py 250-268) takes: a text outside a
\* conversation, /post inside one, /cancel outside one, an unknown command
Unhandled(u, t) ==
    /\ \/ conversations[u] = END /\ (~IsCommand(t) \/ t \in {CMD_CANCEL, CMD_RULES})
       \/ conversations[u] \in States /\ t \in {CMD_POST, CMD_RULES}
    /\ replies' = <<>>
    /\ posted' = <<>>
    /\ last' = Update(u, t, "none", FALSE)
    /\ clean' = [clean EXCEPT ![u] = FALSE]
    /\ rejects' = [rejects EXCEPT ![u] = 0]
    /\ UNCHANGED <<conversations, user_data, status, nPublished, visited,
                   accepted, asked, decided, preview, valVars>>

\* one update from user u, its text or command drawn from the given sets,
\* dispatched as main wires the handlers
DispatchOf(u, texts, commands) ==
    \/ CMD_POST \in commands /\ new_post(u)
    \/ \E t \in texts : title(u, t)
    \/ \E t \in texts : myemoji(u, t)
    \/ \E t \in texts : date(u, t)
    \/ \E t \in texts : description(u, t)
    \/ \E t \in texts : link(u, t)
    \/ \E t \in texts : contact(u, t)
    \/ \E t \in texts : \E delivered \in (IF t = CONFIRM THEN BOOLEAN ELSE {TRUE}) :
          confirmation(u, t, delivered)
    \/ CMD_CANCEL \in commands /\ cancel(u)
    \/ CMD_START \in commands /\ start(u)
    \/ CMD_HELP \in commands /\ help_command(u)
    \/ \E t \in texts \cup commands : Unhandled(u, t)

Dispatch(u) == DispatchOf(u, Texts, Commands)

Next == \E u \in SoloUsers : Dispatch(u)

Spec == Init /\ [][Next]_vars

(***************************************************************************)
(* Two users: the application takes the updates of all users one at a      *)
(* time, in any order.                                                     *)
(***************************************************************************)
\* a second title, which no other rule accepts as emoji or date
T_OTHER == <<"C", "d">>

\* the texts each user sends: the first user everything a whole conversation
\* takes, the second a title of their own
TextsOf(u) == IF u \in SoloUsers THEN {T_NAME, T_RANGE, CONFIRM} ELSE {T_OTHER}

NextTwo == \E u \in Users : DispatchOf(u, TextsOf(u), Commands)

SpecTwo == Init /\ [][NextTwo]_vars

(***************************************************************************)
(* The validators as functions: SpecValidators draws a text and applies    *)
(* every validator and every field's rule to it.                           *)
(***************************************************************************)
\* texts are tried up to this many code points past the largest limit
LenSlack == 2

DayParts ==
    {<<"1", "2">>, <<"1", "6">>, <<"0", "1">>, <<"0", "9">>, <<"2", "8">>,
     <<"2", "9">>, <<"3", "0">>, <<"3", "1">>, <<"3", "2">>, <<"0", "0">>,
     <<" ", "5">>, <<"5", " ">>, <<"1", "AR2">>, <<"1", "a">>, <<"/", "1">>}

MonthParts ==
    {<<"1", "1">>, <<"1", "2">>, <<"0", "1">>, <<"0", "2">>, <<"0", "4">>,
     <<"1", "3">>, <<"0", "0">>, <<" ", "1">>, <<"1", " ">>, <<"1", "AR2">>}

\* every day part with every month part, joined by '/' or by '-'
SingleDates ==
    {d \o <<sep>> \o m : d \in DayParts, m \in MonthParts, sep \in {"/", "-"}}

RangeParts ==
    {<<"1", "2", "/", "1", "1">>, <<"1", "6", "/", "1", "2">>,
     <<"1", "6", "/", "1", "1">>, <<" ", "5", "/", "1", "1">>,
     <<"3", "2", "/", "0", "1">>, <<"2", "9", "/", "0", "2">>,
     <<"1", "2", "-", "1", "1">>, <<"0", "1", "/", "0", "1">>}

RangeDates ==
    {a \o <<sep>> \o b : a \in RangeParts, b \in RangeParts, sep \in {"-", "/", " "}}

OtherTexts ==
    {<<>>, <<"a">>, <<"EYES">>, <<"EYES", "EYES">>, <<"EYES", "a">>, CONFIRM, DENY,
     <<"HEART">>, <<"HEART", "VS16">>, <<"VS16">>, <<"a", "VS16">>,
     <<"HEART", "VS16", "HEART", "VS16">>, <<"HEART", "VS16", "a">>, <<" ">>,
     <<"1", "/", "1">>, <<"1", "2", "/", "1", "1", "-">>,
     <<"1", "2", "/", "1", "1", "-", "1", "6", "/", "1", "2", "-", "1", "7", "/", "1", "2">>,
     <<"A", "b", " ", "c", "!">>, <<"A", "EYES">>, T_NAME}

MaxLimit == LIMITS[DESCRIPTION]

LengthTexts == {Repeat("x", n) : n \in 0..(MaxLimit + LenSlack)}

ValidatorInputs == SingleDates \cup RangeDates \cup OtherTexts \cup LengthTexts

InitValidators ==
    /\ conversations = [u \in Users |-> END]
    /\ user_data = [u \in Users |-> EmptyData]
    /\ replies = <<>>
    /\ posted = <<>>
    /\ last = NoUpdate
    /\ status = [u \in Users |-> "none"]
    /\ nPublished = [u \in Users |-> 0]
    /\ visited = [u \in Users |-> <<>>]
    /\ accepted = [u \in Users |-> <<>>]
    /\ asked = [u \in Users |-> <<>>]
    /\ clean = [u \in Users |-> FALSE]
    /\ decided = [u \in Users |-> FALSE]
    /\ rejects = [u \in Users |-> 0]
    /\ preview = [u \in Users |-> <<>>]
    /\ vtext \in ValidatorInputs
    /\ vres = <<>>

\* the verdict of every validator, and of every field's rule, on vtext
Validate ==
    /\ vres = <<>>
    /\ vres' = [is_date |-> is_date(vtext),
                is_emoji |-> is_emoji(vtext),
                is_only_non_special_characters |->
                    is_only_non_special_characters(vtext),
                is_shorter_than |->
                    [f \in DOMAIN LIMITS |-> is_shorter_than(LIMITS[f], vtext)],
                rule |-> [f \in States \ {CONFIRMATION} |-> Rule(f, vtext)]]
    /\ UNCHANGED <<vtext, progVars, histVars>>

SpecValidators == InitValidators /\ [][Validate]_vars

(***************************************************************************)
(* Claims                                                                  *)
(***************************************************************************)
FieldStates == {TITLE, EMOJI, DATE, DESCRIPTION, LINK, CONTACT}

\* C1: when a field's handler is given a text its rule rejects, the
\* conversation's state and every stored answer are unchanged and the one
\* message sent is the question last asked of that user, unchanged.
C1_RejectedInputReasks ==
    [][\A u \in Users :
          (/\ last'.user = u
           /\ last'.handler \in FieldStates
           /\ ~Rule(last'.handler, last'.text))
          => /\ conversations[u] = last'.handler
             /\ conversations'[u] = conversations[u]
             /\ user_data' = user_data
             /\ posted' = <<>>
             /\ replies' = <<Msg(asked[u], "none")>>
             /\ asked'[u] = asked[u]]_vars

\* C1 witness: the contact handler has just rejected a text and asked its
\* question again.
C1_Witness ==
    /\ last.handler = CONTACT
    /\ ~Rule(CONTACT, last.text)
    /\ conversations[last.user] = CONTACT
    /\ replies = <<Msg(_get_question(CONTACT), "none")>>

\* the stored answers that hold exactly the texts in answers, in flow order
DataOf(post, answers) ==
    [k \in Keys |-> IF k = POST THEN post ELSE answers[IndexOf(k) - 1]]

\* C2: a conversation that /post starts and a delivered accept ends has
\* entered title, emoji, date, description, link, contact and confirmation
\* once each in that order, is confirmed and over, and has sent the
\* moderation chat one document, built from the six texts its handlers
\* accepted, each valid for its field.
C2_FullRunPublishesOnce ==
    \A u \in Users :
        (/\ last.user = u
         /\ last.handler = "confirmation"
         /\ last.text = CONFIRM
         /\ ~last.raised)
        => /\ visited[u] = Tail(flow)
           /\ conversations[u] = END
           /\ status[u] = "confirmed"
           /\ nPublished[u] = 1
           /\ Len(accepted[u]) = Len(flow) - 2
           /\ \A i \in 1..Len(accepted[u]) : Rule(flow[i + 1], accepted[u][i])
           /\ posted = <<build_post(DataOf(CMD_POST, accepted[u]))>>

\* C2 witness: the run of /post, six accepted answers and a delivered accept,
\* with no other update in between.
C2_Witness ==
    /\ last.handler = "confirmation"
    /\ last.text = CONFIRM
    /\ ~last.raised
    /\ clean[last.user]
    /\ status[last.user] = "confirmed"
    /\ Len(posted) = 1

\* C3: /cancel in any state from title to confirmation ends the
\* conversation as cancelled with nothing sent to the moderation chat, and
\* while the user's last conversation is the cancelled one no update of
\* theirs sends anything there.
C3_CancelNeverPublishes ==
    [][\A u \in Users :
          last'.user = u
          => /\ last'.handler = "cancel"
                => /\ conversations[u] \in States
                   /\ conversations'[u] = END
                   /\ status'[u] = "cancelled"
                   /\ posted' = <<>>
                   /\ nPublished'[u] = 0
             /\ status[u] = "cancelled"
                => /\ posted' = <<>>
                   /\ nPublished'[u] = 0]_vars

\* C3 witness: /cancel has just ended a conversation that was at
\* confirmation.
C3_Witness ==
    /\ last.handler = "cancel"
    /\ last.state = CONFIRMATION
    /\ status[last.user] = "cancelled"
    /\ conversations[last.user] = END

\* C4: a document is sent to the moderation chat only by the confirmation
\* handler, for a conversation at confirmation, on the accept token; a
\* reject sends none; and no conversation sends more than one.
C4_PublishOnlyOnAccept ==
    \A u \in Users :
        /\ nPublished[u] <= 1
        /\ nPublished[u] > 0 => status[u] = "confirmed"
        /\ last.user = u
           => /\ Len(posted) <= 1
              /\ posted # <<>>
                 => /\ last.state = CONFIRMATION
                    /\ last.handler = "confirmation"
                    /\ last.text = CONFIRM
              /\ (last.handler = "confirmation" /\ last.text # CONFIRM)
                 => /\ posted = <<>>
                    /\ nPublished[u] = 0
                    /\ status[u] = "cancelled"

\* C4 witness: the accept token at confirmation has just published.
C4_Witness ==
    /\ posted # <<>>
    /\ last.state = CONFIRMATION
    /\ last.text = CONFIRM
    /\ nPublished[last.user] = 1

\* C5, as claimed: once confirmation or cancel has handled an update of a
\* conversation, no later text of that user stores an answer, moves the
\* conversation's state or publishes.
C5_TerminalAfterDecision ==
    [][\A u \in Users :
          (decided[u] /\ last'.user = u /\ ~IsCommand(last'.text))
          => /\ user_data'[u] = user_data[u]
             /\ conversations'[u] = conversations[u]
             /\ posted' = <<>>]_vars

\* C6, as claimed: when the accept's document is not delivered, the user is
\* not sent the acknowledgement that the post was sent.
C6_NoSuccessAckWithoutPublish ==
    (/\ last.handler = "confirmation"
     /\ last.text = CONFIRM
     /\ posted = <<>>)
    => \A i \in 1..Len(replies) : replies[i].text # CONFIRM_SENT

\* the texts of the messages the handlers send in the ordinary course
OrdinaryTexts ==
    {_get_question(f) : f \in States} \cup {CONFIRM_SENT, CANCEL_SENT}

\* the last update was answered with an exception or with a message that is
\* neither a question, a preview nor an acknowledgement
Signalled ==
    \/ last.raised
    \/ \E i \in 1..Len(replies) :
          replies[i].markup # "keyboard" /\ replies[i].text \notin OrdinaryTexts

\* C7, as claimed: an accept or reject token that reaches a conversation
\* which is at a field, not at confirmation, is signalled as a violation:
\* it is not ignored, and not answered as a validation rejection or as an
\* accept or reject would be.
C7_ConfirmElsewhereIsSignalled ==
    (last.text \in {CONFIRM, DENY} /\ last.state \in FieldStates) => Signalled

\* C8, as claimed: after /cancel the user's store holds none of the answers
\* accepted before it.
C8_CancelDiscardsAnswers ==
    last.handler = "cancel"
    => \A k \in Keys \ {POST} : user_data[last.user][k] = Absent

\* a text of the form DD/MM, D and M ASCII digits, that names a day of a
\* month
ValidDayMonth(t) ==
    /\ Len(t) = 5
    /\ t[3] = "/"
    /\ {t[1], t[2], t[4], t[5]} \subseteq AsciiDigits
    /\ LET day == 10 * DigitValue(t[1]) + DigitValue(t[2])
           month == 10 * DigitValue(t[4]) + DigitValue(t[5])
       IN /\ month \in 1..12
          /\ day \in 1..DaysInMonth(month)

DayMonthBefore(a, b) ==
    LET day(t) == 10 * DigitValue(t[1]) + DigitValue(t[2])
        month(t) == 10 * DigitValue(t[4]) + DigitValue(t[5])
    IN month(a) < month(b) \/ (month(a) = month(b) /\ day(a) < day(b))

\* the code points of the alphabet outside ASCII
NonAscii == EmojiChars \cup {"VS16", "AR2", "MIDDOT", "RSQUO"}

IsAscii(t) == \A i \in 1..Len(t) : t[i] \notin NonAscii

\* C9, as claimed, for the ASCII texts: is_date accepts a text iff it is a
\* valid DD/MM, or DD/MM-DD/MM with both parts valid and the first strictly
\* earlier.
C9_DateAcceptedIffWellFormed ==
    (vres # <<>> /\ IsAscii(vtext))
    => (vres.is_date
        <=> \/ ValidDayMonth(vtext)
            \/ /\ Len(vtext) = 11
               /\ vtext[6] = "-"
               /\ ValidDayMonth(SubSeq(vtext, 1, 5))
               /\ ValidDayMonth(SubSeq(vtext, 7, 11))
               /\ DayMonthBefore(SubSeq(vtext, 1, 5), SubSeq(vtext, 7, 11)))

\* the fields whose handler passes is_shorter_than to go_next
LengthCheckedFields == {TITLE, DESCRIPTION, LINK, CONTACT}

GraphemeCount(s) ==
    Cardinality({i \in 1..Len(s) : i = 1 \/ s[i] # VariationSelector})

\* C11, as claimed: is_emoji accepts a text iff it holds exactly one emoji
\* and is exactly one grapheme long.
C11_EmojiAcceptedIffOneGrapheme ==
    vres # <<>>
    => (vres.is_emoji <=> (emoji_count(vtext) = 1 /\ GraphemeCount(vtext) = 1))

C13_UsersAreIndependent ==
    [][\A u \in Users :
          last'.user = u =>
              /\ \A v \in Users \ {u} :
                    /\ conversations'[v] = conversations[v]
                    /\ user_data'[v] = user_data[v]
              /\ \A i \in 1..Len(posted') :
                    posted'[i] = build_post(DataOf(CMD_POST, accepted'[u]))]_vars

\* C13 witness: the first user's document goes out while the second user is
\* in a conversation of their own and has stored a different title.
C13_Witness ==
    /\ last.user \in SoloUsers
    /\ Len(posted) = 1
    /\ \E v \in Users \ SoloUsers :
          /\ conversations[v] = EMOJI
          /\ user_data[v][TITLE] = T_OTHER
          /\ user_data[v][TITLE] # user_data[last.user][TITLE]
          /\ posted[1] = build_post(DataOf(CMD_POST, accepted[last.user]))

\* the order of the fields the claims speak of
FieldOrder == <<TITLE, EMOJI, DATE, DESCRIPTION, LINK, CONTACT, CONFIRMATION>>

PositionOf(state) == CHOOSE i \in 1..Len(FieldOrder) : FieldOrder[i] = state

\* C14: a step of a field's handler leaves the conversation at its field or
\* moves it to the field's immediate successor in the order title, emoji,
\* date, description, link, contact, confirmation: never further, never
\* back; and it moves only where the field's rule accepts the text.  /post
\* puts the conversation at title, the successor of post.
C14_PointerStaysOrAdvancesByOne ==
    [][\A u \in Users :
          /\ (last'.user = u /\ last'.handler = "new_post")
                => conversations'[u] = FieldOrder[1]
          /\ (last'.user = u /\ last'.handler \in FieldStates) =>
                /\ conversations[u] = last'.handler
                /\ conversations'[u] \in States
                /\ \/ conversations'[u] = conversations[u]
                   \/ PositionOf(conversations'[u]) = PositionOf(conversations[u]) + 1
                /\ (conversations'[u] # conversations[u]
                      => Rule(conversations[u], last'.text))]_vars

\* C14 witness: a rejected text has left the conversation at link, and the
\* accepted one after it has moved it to contact.
C14_Witness ==
    /\ last.handler = LINK
    /\ last.retries > 0
    /\ conversations[last.user] = CONTACT

\* the last update made its handler call build_post: contact accepted its
\* text (the preview), or confirmation was given the accept token (the
\* document for the moderation chat)
Rendered(u) ==
    /\ last.user = u
    /\ \/ last.handler = CONTACT /\ Rule(CONTACT, last.text)
       \/ last.handler = "confirmation" /\ last.text = CONFIRM

\* C15: whenever build_post is called, for the preview or for the document
\* that is published, the store holds for each of title, emoji, date,
\* description, link and contact the text the field's handler accepted in
\* this conversation, so the call finds every key it reads.
C15_RenderHasAllFields ==
    \A u \in Users :
        Rendered(u) =>
            /\ Len(accepted[u]) = Len(FieldOrder) - 1
            /\ \A k \in FieldStates :
                  /\ user_data[u][k] # Absent
                  /\ user_data[u][k] = accepted[u][PositionOf(k)]
                  /\ Rule(k, user_data[u][k])
            /\ ~build_post_raises(user_data[u])

\* C15 witness: contact has accepted its text and the preview was built from
\* a store with all six answers.
C15_Witness ==
    /\ Rendered(last.user)
    /\ last.handler = CONTACT
    /\ ~last.raised
    /\ \A k \in FieldStates : user_data[last.user][k] # Absent
    /\ \E i \in 1..Len(replies) : replies[i].markup = "keyboard"

\* contact has just accepted its text and the conversation is at confirmation
ContactAccepted(u) ==
    /\ last.user = u
    /\ last.handler = CONTACT
    /\ ~last.raised
    /\ conversations[u] = CONFIRMATION

\* C16, as claimed: when contact accepts its text, the one message sent is
\* the rendered document with the accept/reject keyboard; no separate
\* question follows it.
C16_PreviewReplacesQuestion ==
    \A u \in Users :
        ContactAccepted(u) =>
            replies = <<Msg(build_post(user_data[u]), "keyboard")>>

\* C16, amended: when contact accepts its text, two messages are sent: first
\* the rendered document with the accept/reject keyboard, then the question
\* of confirmation as an ordinary message of its own.
C16_PreviewThenQuestion ==
    \A u \in Users :
        ContactAccepted(u) =>
            replies = <<Msg(build_post(user_data[u]), "keyboard"),
                        Msg(<<fields_and_questions[CONFIRMATION]>>, "none")>>

\* C16 witness: contact accepted, the preview carries the keyboard and a
\* second message follows it.
C16_Witness ==
    /\ ContactAccepted(last.user)
    /\ Len(replies) = 2
    /\ replies[1].markup = "keyboard"
    /\ replies[2].markup = "none"

\* C17: retries are unlimited and take one step each.  A rejected text, the
\* first at its field or one after any number of rejected ones, is answered
\* with exactly one message, the field's question, and leaves the
\* conversation active at that field with the answers untouched; a text the
\* rule accepts is, after any number of rejected ones, stored under the
\* field and moves the conversation to the next field, as it would have with
\* no rejection before it.
C17_RetriesAreUnlimited ==
    [][\A u \in Users :
          (last'.user = u /\ last'.handler \in FieldStates) =>
              LET field == last'.handler
                  t == last'.text
              IN /\ ~Rule(field, t) =>
                       /\ Len(replies') = 1
                       /\ replies'[1] = Msg(_get_question(field), "none")
                       /\ conversations'[u] = field
                       /\ status'[u] = "active"
                       /\ user_data'[u] = user_data[u]
                       /\ rejects'[u] > 0
                       /\ ~last'.raised
                 /\ Rule(field, t) =>
                       /\ user_data'[u] = [user_data[u] EXCEPT ![field] = t]
                       /\ PositionOf(conversations'[u]) = PositionOf(field) + 1
                       /\ status'[u] = "active"
                       /\ replies'[Len(replies')] =
                              Msg(_get_question(conversations'[u]), "none")
                       /\ rejects'[u] = 0]_vars

\* C17 witness: a text is accepted at date after as many rejected texts in a
\* row as are counted.
C17_Witness ==
    /\ last.handler = DATE
    /\ last.retries = MaxRetries
    /\ Rule(DATE, last.text)
    /\ conversations[last.user] = DESCRIPTION
    /\ status[last.user] = "active"

\* C18: at confirmation every reply that is not exactly the accept token,
\* the reject token or any other text, ends the conversation as cancelled,
\* is answered with the cancel acknowledgement alone, and publishes nothing.
C18_NonAcceptCancels ==
    \A u \in Users :
        (/\ last.user = u
         /\ last.handler = "confirmation"
         /\ last.text # CONFIRM)
        => /\ last.state = CONFIRMATION
           /\ conversations[u] = END
           /\ status[u] = "cancelled"
           /\ Len(replies) = 1
           /\ replies[1].text = CANCEL_SENT
           /\ posted = <<>>
           /\ nPublished[u] = 0
           /\ ~last.raised

\* C18 witness: a text that is neither token was sent at confirmation and
\* the conversation is cancelled.
C18_Witness ==
    /\ last.handler = "confirmation"
    /\ last.text \notin {CONFIRM, DENY}
    /\ status[last.user] = "cancelled"
    /\ conversations[last.user] = END

\* C19: the document sent to the moderation chat on accept is the preview
\* that was shown to the user when contact was accepted: while the
\* conversation waits at confirmation no update changes a stored answer, and
\* what confirmation then sends is, text for text, the preview.
C19_PublishedIsPreview ==
    [][\A u \in Users :
          /\ conversations[u] = CONFIRMATION =>
                /\ preview[u] # <<>>
                /\ user_data'[u] = user_data[u]
                /\ preview'[u] = preview[u]
          /\ last'.user = u =>
                \A i \in 1..Len(posted') : posted'[i] = preview[u]]_vars

\* C19 witness: the document has gone out and equals the preview, with
\* another update handled between the preview and the accept.
C19_Witness ==
    /\ last.handler = "confirmation"
    /\ Len(posted) = 1
    /\ preview[last.user] # <<>>
    /\ posted[1] = preview[last.user]
    /\ ~clean[last.user]

\* C20: in every reachable state every answer stored under title, emoji,
\* date, description, link or contact satisfies its field's validator: the
\* title has only whitelisted characters and fewer than 10 of them, the
\* emoji is one emoji of length 1, the date is a date or an ordered range,
\* description and link are shorter than 100 and contact shorter than 50.
\* This covers the answers an earlier conversation of the user left behind.
C20_StoredAnswersAreValid ==
    \A u \in Users :
        \A k \in FieldStates :
            LET v == user_data[u][k]
            IN v # Absent =>
                  /\ Rule(k, v)
                  /\ k = TITLE =>
                        is_only_non_special_characters(v) /\ Len(v) < 10
                  /\ k = EMOJI => Len(v) = 1 /\ v[1] \in EmojiChars
                  /\ k = DATE => is_date(v)
                  /\ k \in {DESCRIPTION, LINK} => Len(v) < 100
                  /\ k = CONTACT => Len(v) < 50

\* C20 witness: a new conversation is at title while the contact accepted in
\* the user's earlier conversation is still stored.
C20_Witness ==
    \E u \in Users :
        /\ conversations[u] = TITLE
        /\ status[u] = "active"
        /\ user_data[u][CONTACT] # Absent
        /\ Rule(CONTACT, user_data[u][CONTACT])

====
